---- MODULE Spec2Model ----
(***************************************************************************)
(* Model of actix-http/src/client/h2proto.rs: the HTTP/2 client dispatch   *)
(* (send_request), the body flow-control loop (send_body) and the pool     *)
(* guard resolution (release).                                             *)
(*                                                                         *)
(* The h2 connection, the h2 send stream, the body producer and the        *)
(* response future are the environment: every result they can return is a  *)
(* nondeterministic choice of the action that consumes it.  An action is   *)
(* the code that runs between two suspension points (.await).              *)
(***************************************************************************)
EXTENDS Integers, Sequences, FiniteSets, TLC

(* ---------------------------------------------------------------- bounds *)
\* largest n of BodySize::Sized(n) given to the request translator
MaxSized == 12
\* largest n of BodySize::Sized(n) in the dispatch specification
MaxSizedDispatch == 1
\* header entries of head and overlay together, translator specification
MaxHdrs == 3
\* chunks the body producer yields before it must end or fail
MaxChunks == 2
\* bytes in one producer chunk
MaxChunkLen == 3
\* largest capacity value poll_capacity returns
MaxCap == 3
\* frames recorded on one stream (bounds the zero-capacity granted)
MaxFrames == 5

(* ------------------------------------------------------------ vocabulary *)
CONNECTION == "connection"
TRANSFER_ENCODING == "transfer-encoding"
CONTENT_LENGTH == "content-length"
X_CUSTOM == "x-custom"

HeaderNames == {CONNECTION, TRANSFER_ENCODING, CONTENT_LENGTH, X_CUSTOM}
\* header values are ASCII digit strings, written as sequences of digits
HeaderValues == {<<7>>, <<4, 2>>}
HeaderEntries == HeaderNames \X HeaderValues

Methods == {"GET", "HEAD"}

None == [tag |-> "None", len |-> 0]
Stream == [tag |-> "Stream", len |-> 0]
Empty == [tag |-> "Empty", len |-> 0]
Sized(n) == [tag |-> "Sized", len |-> n]
BodySizes(max) == {None, Stream, Empty} \cup {Sized(n) : n \in 0..max}

RECURSIVE SeqsUpTo(_, _)
SeqsUpTo(S, n) ==
    IF n = 0 THEN {<<>>}
    ELSE LET shorter == SeqsUpTo(S, n - 1)
         IN  shorter \cup {Append(s, e) : s \in {t \in shorter : Len(t) = n - 1}, e \in S}

Min(a, b) == IF a < b THEN a ELSE b

VARIABLES
    method,       \* head.method
    length,       \* body.size()
    headType,     \* "Owned" or "Rc": the variant of RequestHeadType
    headHeaders,  \* head.headers, as (name, value) entries in iteration order
    rcExtra,      \* the Option<HeaderMap> of RequestHeadType::Rc: <<>> or <<map>>
    pc,           \* position of send_request
    head_req, eof, skip_len,
    headers,      \* the merged (key, value) iterator the copy loop runs over
    req,          \* headers of the h2 request, in insertion order
    opens,        \* calls of io.send_request
    acquired,     \* calls made on the pool guard, in order
    frames,       \* frames handed to h2 for this stream, in order
    sb,           \* position of send_body
    buf,          \* send_body's buf: <<>> (None) or <<bytes>> (Some)
    reserved,     \* last value given to send.reserve_capacity
    polls,        \* chunks yielded by the body producer so far
    produced,     \* chunks yielded by the body producer, in order
    exhausted,    \* the body producer has returned None
    granted,      \* the value the last poll_capacity returned
    awaited,      \* the response future has been awaited
    resp,         \* the body of the response the future resolved to
    result        \* what send_request returned

inputs == <<method, length, headType, headHeaders, rcExtra>>
locals == <<head_req, eof, skip_len, headers, req>>
bodyvars == <<sb, buf, reserved, polls, produced, exhausted, granted>>
vars == <<inputs, locals, pc, opens, acquired, frames, bodyvars, awaited, resp, result>>


(* --------------------------------------------- request translator, pure *)
\* the digits written least significant first
RECURSIVE Itoa_reversed(_)
Itoa_reversed(n) == IF n < 10 THEN <<n>> ELSE <<n % 10>> \o Itoa_reversed(n \div 10)

\* itoa::Buffer::format: the minimal decimal rendering, most significant first
RECURSIVE Itoa(_)
Itoa(n) == IF n < 10 THEN <<n>> ELSE Itoa(n \div 10) \o <<n % 10>>

\* Sized(0) forgotten among the patterns
Eof_without_sized_zero(len) == len.tag \in {"None", "Empty"}

\* let eof = matches!(length, None | Empty | Sized(0))
Eof(len) == len.tag \in {"None", "Empty"} \/ (len.tag = "Sized" /\ len.len = 0)

\* skip_len never cleared
SkipLen_always(len) == TRUE

\* let mut skip_len = true; only the Stream arm clears it
SkipLen(len) == len.tag # "Stream"

\* the `match length` that inserts CONTENT_LENGTH into the fresh request
ContentLength(len) ==
    CASE len.tag = "None" -> <<>>
      [] len.tag = "Stream" -> <<>>
      [] len.tag = "Empty" -> << <<CONTENT_LENGTH, <<0>>>> >>
      [] len.tag = "Sized" -> << <<CONTENT_LENGTH, Itoa(len.len)>> >>

\* Owned(head) => HeaderMap::new(); Rc(head, extra) => extra.unwrap_or_else(new)
ExtraHeaders(type, extra) ==
    IF type = "Owned" THEN <<>>
    ELSE IF extra = <<>> THEN <<>> ELSE extra[1]

ContainsKey(map, name) == \E i \in 1..Len(map) : map[i][1] = name

\* the head's entries chained without the filter on the overlay's names
MergedHeaders_unfiltered(head, extra) == head \o extra

\* head.headers.iter().filter(|(name, _)| !extra.contains_key(name)).chain(extra.iter())
MergedHeaders(head, extra) ==
    LET Keep(e) == ~ContainsKey(extra, e[1])
    IN  SelectSeq(head, Keep) \o extra

\* TRANSFER_ENCODING missing from the omitted HTTP/1.x headers
RECURSIVE CopyHeaders_keeps_encoding(_, _, _)
CopyHeaders_keeps_encoding(out, hs, skip) ==
    IF hs = <<>> THEN out
    ELSE LET key == hs[1][1]
             rest == Tail(hs)
         IN  IF key = CONNECTION THEN CopyHeaders_keeps_encoding(out, rest, skip)
             ELSE IF key = CONTENT_LENGTH /\ skip
                  THEN CopyHeaders_keeps_encoding(out, rest, skip)
             ELSE CopyHeaders_keeps_encoding(Append(out, hs[1]), rest, skip)

\* the CONTENT_LENGTH arm missing: the caller's length is appended
RECURSIVE CopyHeaders_keeps_length(_, _, _)
CopyHeaders_keeps_length(out, hs, skip) ==
    IF hs = <<>> THEN out
    ELSE LET key == hs[1][1]
             rest == Tail(hs)
         IN  IF key \in {CONNECTION, TRANSFER_ENCODING}
             THEN CopyHeaders_keeps_length(out, rest, skip)
             ELSE CopyHeaders_keeps_length(Append(out, hs[1]), rest, skip)

\* the `for (key, value) in headers` loop over the merged entries
RECURSIVE CopyHeaders(_, _, _)
CopyHeaders(out, hs, skip) ==
    IF hs = <<>> THEN out
    ELSE LET key == hs[1][1]
             rest == Tail(hs)
         IN  IF key \in {CONNECTION, TRANSFER_ENCODING} THEN CopyHeaders(out, rest, skip)
             ELSE IF key = CONTENT_LENGTH /\ skip THEN CopyHeaders(out, rest, skip)
             ELSE CopyHeaders(Append(out, hs[1]), rest, skip)

\* the headers of the request handed to io.send_request
RequestHeaders(len, type, head, extra) ==
    CopyHeaders(ContentLength(len),
                MergedHeaders(head, ExtraHeaders(type, extra)),
                SkipLen(len))

(* ------------------------------------------------------------ pool guard *)
\* close() not followed by an else: the guard is released as well
release_after_close(close) ==
    IF close THEN Append(Append(acquired, "close"), "release")
    ELSE Append(acquired, "release")

\* fn release(io, acquired, created, close)
release(close) ==
    IF close THEN Append(acquired, "close") ELSE Append(acquired, "release")

(* ---------------------------------------------------------------- errors *)
NoError == [kind |-> "none", site |-> "none", io |-> FALSE]
\* an h2::Error, from the call `site`; io is what e.is_io() answers
H2Error(site, io) == [kind |-> "h2", site |-> site, io |-> io]
\* the error a MessageBody yields from poll_next
BodyError == [kind |-> "body", site |-> "poll_next", io |-> FALSE]

Pending == [tag |-> "Pending", err |-> NoError, payload |-> "none"]
Err(e) == [tag |-> "Err", err |-> e, payload |-> "none"]
Ok(p) == [tag |-> "Ok", err |-> NoError, payload |-> p]

(* ---------------------------------------------------------------- frames *)
HeadersFrame(end) == [kind |-> "headers", data |-> <<>>, eos |-> end]
DataFrame(bytes, end) == [kind |-> "data", data |-> bytes, eos |-> end]

(* ------------------------------------------------------------ initial *)
InitFrom(r) ==
    /\ method = r.method
    /\ length = r.length
    /\ headType = r.headType
    /\ headHeaders = r.headHeaders
    /\ rcExtra = r.rcExtra
    /\ pc = "start"
    /\ head_req = FALSE
    /\ eof = FALSE
    /\ skip_len = TRUE
    /\ headers = <<>>
    /\ req = <<>>
    /\ opens = 0
    /\ acquired = <<>>
    /\ frames = <<>>
    /\ sb = "idle"
    /\ buf = <<>>
    /\ reserved = 0
    /\ polls = 0
    /\ produced = <<>>
    /\ exhausted = FALSE
    /\ granted = 0
    /\ awaited = FALSE
    /\ resp = "none"
    /\ result = Pending

\* a HeaderMap keeps the values of one name together: its iteration never
\* returns to a name it has left
Grouped(hs) ==
    \A i, j \in 1..Len(hs) :
        (i < j /\ hs[i][1] = hs[j][1]) => \A k \in i..j : hs[k][1] = hs[i][1]

HeaderMaps(n) == {hs \in SeqsUpTo(HeaderEntries, n) : Grouped(hs)}

\* the shapes of RequestHeadType around the headers hd, with at most h entries
\* in head and overlay together
HeadTypes(hd, h) ==
    {[headType |-> "Owned", headHeaders |-> hd, rcExtra |-> <<>>],
     [headType |-> "Rc", headHeaders |-> hd, rcExtra |-> <<>>]}
    \cup {[headType |-> "Rc", headHeaders |-> hd, rcExtra |-> <<m>>] :
             m \in HeaderMaps(h - Len(hd))}

\* the heads the dispatch specification sends: one owned head, one shared head
\* with an overlay; what follows the translator does not read the headers
DispatchHeads ==
    {[headType |-> "Owned", rcExtra |-> <<>>,
      headHeaders |-> << <<X_CUSTOM, <<7>>>>, <<CONNECTION, <<7>>>> >>],
     [headType |-> "Rc", rcExtra |-> << << <<X_CUSTOM, <<7>>>> >> >>,
      headHeaders |-> << <<CONTENT_LENGTH, <<4, 2>>>> >>]}

Init ==
    \E m \in Methods, l \in BodySizes(MaxSizedDispatch), x \in DispatchHeads :
        InitFrom([method |-> m, length |-> l, headType |-> x.headType,
                  headHeaders |-> x.headHeaders, rcExtra |-> x.rcExtra])

InitTranslate ==
    \E m \in Methods, l \in BodySizes(MaxSized) :
        \E hd \in HeaderMaps(MaxHdrs) :
            \E x \in HeadTypes(hd, MaxHdrs) :
                InitFrom([method |-> m, length |-> l, headType |-> x.headType,
                          headHeaders |-> x.headHeaders, rcExtra |-> x.rcExtra])

(* ------------------------------------------------------- send_request *)
\* lines 36-102: build the request, then start the readiness wait
Translate ==
    /\ pc = "start"
    /\ head_req' = (method = "HEAD")
    /\ eof' = Eof(length)
    /\ skip_len' = SkipLen(length)
    /\ headers' = MergedHeaders(headHeaders, ExtraHeaders(headType, rcExtra))
    /\ req' = RequestHeaders(length, headType, headHeaders, rcExtra)
    /\ pc' = "poll_ready"
    /\ UNCHANGED <<inputs, resp, opens, acquired, frames, bodyvars, awaited, result>>

\* the readiness error handled as a healthy connection
ReadyErr_releases(io) ==
    /\ pc = "poll_ready"
    /\ acquired' = Append(acquired, "release")
    /\ result' = Err([kind |-> "h2", site |-> "poll_ready", io |-> io])
    /\ pc' = "done"
    /\ UNCHANGED <<inputs, resp, locals, opens, frames, bodyvars, awaited>>

\* poll_ready resolves to Err(e)
ReadyErr(io) ==
    /\ pc = "poll_ready"
    /\ acquired' = release(io)
    /\ result' = Err(H2Error("poll_ready", io))
    /\ pc' = "done"
    /\ UNCHANGED <<inputs, resp, locals, opens, frames, bodyvars, awaited>>

\* every stream-open failure discards the connection
OpenErr_always_closes(io) ==
    /\ pc = "poll_ready"
    /\ opens' = opens + 1
    /\ acquired' = Append(acquired, "close")
    /\ result' = Err([kind |-> "h2", site |-> "send_request", io |-> io])
    /\ pc' = "done"
    /\ UNCHANGED <<inputs, resp, locals, frames, bodyvars, awaited>>

\* poll_ready resolves to Ok, io.send_request(req, eof) returns Err(e)
OpenErr(io) ==
    /\ pc = "poll_ready"
    /\ opens' = opens + 1
    /\ acquired' = release(io)
    /\ result' = Err(H2Error("send_request", io))
    /\ pc' = "done"
    /\ UNCHANGED <<inputs, resp, locals, frames, bodyvars, awaited>>

\* the guard kept across the body and the response instead of released at once
OpenOk_keeps_guard ==
    /\ pc = "poll_ready"
    /\ opens' = opens + 1
    /\ frames' = Append(frames, [kind |-> "headers", data |-> <<>>, eos |-> eof])
    /\ IF ~eof
       THEN /\ pc' = "send_body"
            /\ sb' = "poll_next"
            /\ awaited' = awaited
       ELSE /\ pc' = "response"
            /\ sb' = sb
            /\ awaited' = TRUE
    /\ UNCHANGED <<inputs, resp, locals, acquired, buf, reserved, polls, produced, exhausted,
                   granted, result>>

\* poll_ready resolves to Ok, io.send_request(req, eof) returns Ok((fut, send))
OpenOk ==
    /\ pc = "poll_ready"
    /\ opens' = opens + 1
    /\ frames' = Append(frames, HeadersFrame(eof))
    /\ acquired' = release(FALSE)
    /\ IF ~eof
       THEN /\ pc' = "send_body"
            /\ sb' = "poll_next"
            /\ awaited' = awaited
       ELSE /\ pc' = "response"
            /\ sb' = sb
            /\ awaited' = TRUE
    /\ UNCHANGED <<inputs, resp, locals, buf, reserved, polls, produced, exhausted,
                   granted, result>>

(* ---------------------------------------------------------- send_body *)
\* the next len bytes of the body, numbered in the order the producer yields them
RECURSIVE Total(_)
Total(chunks) == IF chunks = <<>> THEN 0 ELSE Len(chunks[1]) + Total(Tail(chunks))

Chunk(len) == [i \in 1..len |-> Total(produced) + i]

\* the whole buffer sent, whatever was granted
SplitTo_whole(b, cap) == b

\* b.split_to(min(cap, len)): the bytes carved off the front
SplitTo(b, cap) == SubSeq(b, 1, Min(cap, Len(b)))
\* one byte too many taken off the front
Remainder_skips_one(b, cap) == SubSeq(b, Min(cap, Len(b)) + 2, Len(b))

\* what stays in b after split_to
Remainder(b, cap) == SubSeq(b, Min(cap, Len(b)) + 1, Len(b))

\* poll_next yields Some(Ok(b))
ChunkOk(len) ==
    /\ pc = "send_body" /\ sb = "poll_next"
    /\ polls < MaxChunks
    /\ polls' = polls + 1
    /\ produced' = Append(produced, Chunk(len))
    /\ reserved' = len
    /\ buf' = <<Chunk(len)>>
    /\ sb' = "poll_capacity"
    /\ UNCHANGED <<inputs, resp, locals, pc, opens, acquired, frames, exhausted, granted,
                   awaited, result>>

\* the stream ended with an end-of-stream frame before the error is returned
ChunkErr_ends_stream ==
    /\ pc = "send_body" /\ sb = "poll_next"
    /\ frames' = Append(frames, [kind |-> "data", data |-> <<>>, eos |-> TRUE])
    /\ sb' = "failed"
    /\ result' = Err(BodyError)
    /\ pc' = "done"
    /\ UNCHANGED <<inputs, resp, locals, opens, acquired, buf, reserved, polls,
                   produced, exhausted, granted, awaited>>

\* poll_next yields Some(Err(e)): send_body returns Err, `?` returns it from send_request
ChunkErr ==
    /\ pc = "send_body" /\ sb = "poll_next"
    /\ sb' = "failed"
    /\ result' = Err(BodyError)
    /\ pc' = "done"
    /\ UNCHANGED <<inputs, resp, locals, opens, acquired, frames, buf, reserved, polls,
                   produced, exhausted, granted, awaited>>

\* end-of-body returns Ok without the end-of-stream frame
EndOk_without_frame ==
    /\ pc = "send_body" /\ sb = "poll_next"
    /\ exhausted' = TRUE
    /\ reserved' = 0
    /\ sb' = "returned"
    /\ pc' = "response"
    /\ awaited' = TRUE
    /\ UNCHANGED <<inputs, resp, locals, opens, acquired, frames, buf, polls, produced,
                   granted, result>>

\* poll_next yields None and send_data(Bytes::new(), true) succeeds
EndOk ==
    /\ pc = "send_body" /\ sb = "poll_next"
    /\ exhausted' = TRUE
    /\ frames' = Append(frames, DataFrame(<<>>, TRUE))
    /\ reserved' = 0
    /\ sb' = "returned"
    /\ pc' = "response"
    /\ awaited' = TRUE
    /\ UNCHANGED <<inputs, resp, locals, opens, acquired, buf, polls, produced, granted, result>>

\* poll_next yields None and send_data(Bytes::new(), true) fails
EndErr(io) ==
    /\ pc = "send_body" /\ sb = "poll_next"
    /\ exhausted' = TRUE
    /\ sb' = "failed"
    /\ result' = Err(H2Error("send_data", io))
    /\ pc' = "done"
    /\ UNCHANGED <<inputs, resp, locals, opens, acquired, frames, buf, reserved, polls,
                   produced, granted, awaited>>

\* the stream closed with an end-of-stream frame when capacity runs out
CapacityNone_ends_stream ==
    /\ pc = "send_body" /\ sb = "poll_capacity"
    /\ frames' = Append(frames, [kind |-> "data", data |-> <<>>, eos |-> TRUE])
    /\ sb' = "returned"
    /\ pc' = "response"
    /\ awaited' = TRUE
    /\ UNCHANGED <<inputs, resp, locals, opens, acquired, buf, reserved, polls,
                   produced, exhausted, granted, result>>

\* poll_capacity yields None: send_body returns Ok(())
CapacityNone ==
    /\ pc = "send_body" /\ sb = "poll_capacity"
    /\ sb' = "returned"
    /\ pc' = "response"
    /\ awaited' = TRUE
    /\ UNCHANGED <<inputs, resp, locals, opens, acquired, frames, buf, reserved, polls,
                   produced, exhausted, granted, result>>

\* the frame that empties the buffer marked end-of-stream
CapacityOk_coalesced(cap) ==
    /\ pc = "send_body" /\ sb = "poll_capacity"
    /\ Len(frames) < MaxFrames
    /\ granted' = cap
    /\ frames' = Append(frames, [kind |-> "data", data |-> SplitTo(buf[1], cap),
                                 eos |-> Remainder(buf[1], cap) = <<>>])
    /\ IF Remainder(buf[1], cap) # <<>>
       THEN /\ reserved' = Len(Remainder(buf[1], cap))
            /\ buf' = <<Remainder(buf[1], cap)>>
            /\ sb' = "poll_capacity"
       ELSE /\ reserved' = reserved
            /\ buf' = <<>>
            /\ sb' = "poll_next"
    /\ UNCHANGED <<inputs, resp, locals, pc, opens, acquired, polls, produced, exhausted,
                   awaited, result>>

\* the remainder waited for without a new reserve_capacity
CapacityOk_no_rereserve(cap) ==
    /\ pc = "send_body" /\ sb = "poll_capacity"
    /\ Len(frames) < MaxFrames
    /\ granted' = cap
    /\ frames' = Append(frames, DataFrame(SplitTo(buf[1], cap), FALSE))
    /\ reserved' = reserved
    /\ IF Remainder(buf[1], cap) # <<>>
       THEN /\ buf' = <<Remainder(buf[1], cap)>>
            /\ sb' = "poll_capacity"
       ELSE /\ buf' = <<>>
            /\ sb' = "poll_next"
    /\ UNCHANGED <<inputs, resp, locals, pc, opens, acquired, polls, produced, exhausted,
                   awaited, result>>

\* poll_capacity yields Some(Ok(cap)) and send_data(bytes, false) succeeds
CapacityOk(cap) ==
    /\ pc = "send_body" /\ sb = "poll_capacity"
    /\ Len(frames) < MaxFrames
    /\ granted' = cap
    /\ frames' = Append(frames, DataFrame(SplitTo(buf[1], cap), FALSE))
    /\ IF Remainder(buf[1], cap) # <<>>
       THEN /\ reserved' = Len(Remainder(buf[1], cap))
            /\ buf' = <<Remainder(buf[1], cap)>>
            /\ sb' = "poll_capacity"
       ELSE /\ reserved' = reserved
            /\ buf' = <<>>
            /\ sb' = "poll_next"
    /\ UNCHANGED <<inputs, resp, locals, pc, opens, acquired, polls, produced, exhausted,
                   awaited, result>>

\* poll_capacity yields Some(Ok(cap)) and send_data(bytes, false) fails
CapacitySendErr(cap, io) ==
    /\ pc = "send_body" /\ sb = "poll_capacity"
    /\ granted' = cap
    /\ buf' = <<Remainder(buf[1], cap)>>
    /\ sb' = "failed"
    /\ result' = Err(H2Error("send_data", io))
    /\ pc' = "done"
    /\ UNCHANGED <<inputs, resp, locals, opens, acquired, frames, reserved, polls, produced,
                   exhausted, awaited>>

\* the stream ended with an end-of-stream frame before the error is returned
CapacityErr_ends_stream(io) ==
    /\ pc = "send_body" /\ sb = "poll_capacity"
    /\ frames' = Append(frames, [kind |-> "data", data |-> <<>>, eos |-> TRUE])
    /\ sb' = "failed"
    /\ result' = Err(H2Error("poll_capacity", io))
    /\ pc' = "done"
    /\ UNCHANGED <<inputs, resp, locals, opens, acquired, buf, reserved, polls,
                   produced, exhausted, granted, awaited>>

\* poll_capacity yields Some(Err(e))
CapacityErr(io) ==
    /\ pc = "send_body" /\ sb = "poll_capacity"
    /\ sb' = "failed"
    /\ result' = Err(H2Error("poll_capacity", io))
    /\ pc' = "done"
    /\ UNCHANGED <<inputs, resp, locals, opens, acquired, frames, buf, reserved, polls,
                   produced, exhausted, granted, awaited>>

(* ------------------------------------------------------ response builder *)
\* the payload built from the body whatever the request's method was
ResponseOk_wraps_always(body) ==
    /\ pc = "response"
    /\ resp' = body
    /\ result' = Ok(body)
    /\ pc' = "done"
    /\ UNCHANGED <<inputs, locals, opens, acquired, frames, bodyvars, awaited>>

\* fut.await resolves to Ok(resp); body is resp's body turned into a Payload
ResponseOk(body) ==
    /\ pc = "response"
    /\ resp' = body
    /\ result' = Ok(IF head_req THEN "Payload::None" ELSE body)
    /\ pc' = "done"
    /\ UNCHANGED <<inputs, locals, opens, acquired, frames, bodyvars, awaited>>

\* fut.await resolves to Err(e)
ResponseErr(io) ==
    /\ pc = "response"
    /\ result' = Err(H2Error("response", io))
    /\ pc' = "done"
    /\ UNCHANGED <<inputs, resp, locals, opens, acquired, frames, bodyvars, awaited>>

ResponseBodies == {"Payload::H2(empty)", "Payload::H2(data)"}

Next ==
    \/ Translate
    \/ \E io \in BOOLEAN : ReadyErr(io)
    \/ \E io \in BOOLEAN : OpenErr(io)
    \/ OpenOk
    \/ \E len \in 0..MaxChunkLen : ChunkOk(len)
    \/ ChunkErr
    \/ EndOk
    \/ \E io \in BOOLEAN : EndErr(io)
    \/ CapacityNone
    \/ \E cap \in 0..MaxCap : CapacityOk(cap)
    \/ \E cap \in 0..MaxCap, io \in BOOLEAN : CapacitySendErr(cap, io)
    \/ \E io \in BOOLEAN : CapacityErr(io)
    \/ \E body \in ResponseBodies : ResponseOk(body)
    \/ \E io \in BOOLEAN : ResponseErr(io)

Spec == Init /\ [][Next]_vars

\* the translator alone, over the larger set of heads, overlays and sizes
NextTranslate == Translate

SpecTranslate == InitTranslate /\ [][NextTranslate]_vars


(* -------------------------------------------------------------- liveness *)
\* the same program with a peer whose grants are positive
NextLive ==
    \/ Translate
    \/ \E io \in BOOLEAN : ReadyErr(io)
    \/ \E io \in BOOLEAN : OpenErr(io)
    \/ OpenOk
    \/ \E len \in 0..MaxChunkLen : ChunkOk(len)
    \/ ChunkErr
    \/ EndOk
    \/ \E io \in BOOLEAN : EndErr(io)
    \/ CapacityNone
    \/ \E cap \in 1..MaxCap : CapacityOk(cap)
    \/ \E cap \in 1..MaxCap, io \in BOOLEAN : CapacitySendErr(cap, io)
    \/ \E io \in BOOLEAN : CapacityErr(io)
    \/ \E body \in ResponseBodies : ResponseOk(body)
    \/ \E io \in BOOLEAN : ResponseErr(io)

\* the producer answers a poll_next: a chunk, an error or the end of the body
ChunkAnswered ==
    \/ \E len \in 0..MaxChunkLen : ChunkOk(len)
    \/ ChunkErr
    \/ EndOk
    \/ \E io \in BOOLEAN : EndErr(io)

\* the peer answers a poll_capacity that has a non-zero reservation outstanding:
\* a positive grant, the closure of the stream or an error
CapacityAnswered ==
    /\ reserved > 0
    /\ \/ CapacityNone
       \/ \E cap \in 1..MaxCap : CapacityOk(cap)
       \/ \E cap \in 1..MaxCap, io \in BOOLEAN : CapacitySendErr(cap, io)
       \/ \E io \in BOOLEAN : CapacityErr(io)

Fairness == WF_vars(ChunkAnswered) /\ WF_vars(CapacityAnswered)

SpecLive == Init /\ [][NextLive]_vars /\ Fairness

(* ================================================================ claims *)
Last(q) == q[Len(q)]
\* the data frames marked end-of-stream
EosFrames == {i \in 1..Len(frames) : frames[i].kind = "data" /\ frames[i].eos}
\* the data frames
DataFrames == {i \in 1..Len(frames) : frames[i].kind = "data"}
Returned == result.tag # "Pending"
\* send_request failed before a stream was opened
FailedBeforeOpen == result.tag = "Err" /\ result.err.site \in {"poll_ready", "send_request"}
\* send_request failed after the stream was opened
FailedAfterOpen ==
    result.tag = "Err" /\ result.err.site \in {"poll_next", "send_data", "poll_capacity", "response"}

\* C1: whenever send_request has returned, on success or on any failure branch,
\* exactly one call was made on the pool guard, release or close; at no moment
\* have two calls been made.
C1_ExactlyOneResolution ==
    /\ Len(acquired) <= 1
    /\ \A i \in 1..Len(acquired) : acquired[i] \in {"release", "close"}
    /\ Returned => Len(acquired) = 1

C1_Witness ==
    /\ pc = "done" /\ result.tag = "Err" /\ result.err.kind = "body"
    /\ DataFrames # {}
    /\ Len(acquired) = 1

\* C2 as stated: a failure of the readiness wait or of the stream-open resolves
\* the guard by close(), never by release(), whatever the class of the error.
C2_Original == FailedBeforeOpen => acquired = <<"close">>

\* C2 amended: a failure before a successful stream-open resolves the guard once,
\* by close() when the error is an I/O error and by release() when it is not;
\* the stream-open is tried at most once, nothing is sent, and the error of the
\* failed call is the result.
C2_BeforeOpenByErrorClass ==
    FailedBeforeOpen =>
        /\ acquired = (IF result.err.io THEN <<"close">> ELSE <<"release">>)
        /\ opens = (IF result.err.site = "poll_ready" THEN 0 ELSE 1)
        /\ frames = <<>> /\ polls = 0 /\ ~awaited
        /\ pc = "done"

C2_Witness ==
    /\ result.tag = "Err" /\ result.err.site = "send_request" /\ ~result.err.io
    /\ acquired = <<"release">>

\* C3: once the stream is open the guard has been released: before the producer
\* is first polled, before any data frame is sent and before the response is
\* awaited; a failure of the producer, of a send, of the capacity wait or of
\* the response leaves exactly that one release() on the guard.
C3_ReleaseAtDispatch ==
    /\ (frames # <<>> \/ sb # "idle" \/ polls > 0 \/ awaited) => acquired = <<"release">>
    /\ FailedAfterOpen => acquired = <<"release">>

C3_Witness ==
    /\ result.tag = "Err" /\ result.err.site = "send_data"
    /\ DataFrames # {}
    /\ acquired = <<"release">>

\* C4: every step that sends a data frame sends at most as many bytes as the
\* poll_capacity of that step returned; the end-of-stream frame is empty.
C4_FrameWithinGrant ==
    [][frames' # frames =>
         /\ Len(frames') = Len(frames) + 1
         /\ (Last(frames').kind = "data" =>
               IF Last(frames').eos THEN Len(Last(frames').data) = 0
               ELSE Len(Last(frames').data) <= granted')]_vars

C4_Witness ==
    /\ sb = "poll_capacity" /\ buf # <<>> /\ Len(buf[1]) > 0
    /\ DataFrames # {}
    /\ ~Last(frames).eos
    /\ granted > 0 /\ Len(Last(frames).data) = granted

\* C5 as stated: whenever send_body has returned success, exactly one empty
\* end-of-stream data frame has been sent, and the producer had reported
\* end-of-body.
C5_Original ==
    sb = "returned" => (Cardinality(EosFrames) = 1 /\ exhausted)

\* C5 amended: when send_body returns success after the producer reported
\* end-of-body, exactly one empty end-of-stream data frame has been sent, as the
\* last frame; an end-of-stream data frame is only ever sent after end-of-body;
\* when send_body returns success because poll_capacity yielded None, no
\* end-of-stream data frame has been sent.
C5_EndFrameOnExhaustion ==
    /\ (sb = "returned" /\ exhausted) =>
          /\ Cardinality(EosFrames) = 1
          /\ Last(frames) = [kind |-> "data", data |-> <<>>, eos |-> TRUE]
    /\ (sb = "returned" /\ ~exhausted) => EosFrames = {}
    /\ EosFrames # {} => (exhausted /\ sb = "returned")

C5_Witness ==
    /\ sb = "returned" /\ exhausted
    /\ polls = MaxChunks
    /\ Cardinality(DataFrames) >= 3

\* C6: on the request's stream the headers frame is first and is the only
\* headers frame, and a frame marked end-of-stream is the last frame: no data
\* frame follows it.
C6_FrameOrder ==
    /\ \A i \in 1..Len(frames) : (frames[i].kind = "headers") <=> (i = 1)
    /\ \A i \in 1..Len(frames) : frames[i].eos => i = Len(frames)

C6_Witness ==
    /\ pc = "done"
    /\ Len(frames) >= 4
    /\ Last(frames).kind = "data" /\ Last(frames).eos

\* C7: when the producer fails, the step that sees the failure sends nothing,
\* ends send_request with the producer's error and never awaits the response;
\* the frames sent before stay as they were and hold no end-of-stream frame.
C7_ProducerFailureAborts ==
    /\ [](result.err.kind = "body" =>
            /\ result = Err(BodyError)
            /\ pc = "done" /\ sb = "failed"
            /\ ~awaited
            /\ EosFrames = {}
            /\ ~ENABLED Next)
    /\ [][(result'.err.kind = "body" /\ result.err.kind # "body") =>
            /\ sb = "poll_next"
            /\ frames' = frames]_vars

C7_Witness ==
    /\ result.err.kind = "body"
    /\ polls >= 1
    /\ Cardinality(DataFrames) >= 2

\* C8: when the readiness wait fails with an I/O error, close() is the one call
\* on the guard, no stream-open was attempted, the producer was never polled,
\* no frame was sent, and the readiness error is the result.
C8_ReadinessIoFailure ==
    (result.tag = "Err" /\ result.err.site = "poll_ready" /\ result.err.io) =>
        /\ acquired = <<"close">>
        /\ opens = 0
        /\ polls = 0 /\ sb = "idle"
        /\ frames = <<>>
        /\ ~awaited
        /\ pc = "done"

C8_Witness ==
    /\ result = Err(H2Error("poll_ready", TRUE))
    /\ acquired = <<"close">>

\* C9: the end-of-stream flag of the stream-open is set exactly for BodySize
\* None, Empty and Sized(0); with the flag set send_body is never entered (the
\* producer is not polled, no data frame is sent); without it the response is
\* awaited only after send_body has returned.
C9_EofDecidesBodyPhase ==
    frames # <<>> =>
        /\ frames[1].eos <=> (length.tag \in {"None", "Empty"} \/ length = Sized(0))
        /\ frames[1].eos => (sb = "idle" /\ polls = 0 /\ DataFrames = {} /\ awaited)
        /\ (~frames[1].eos /\ awaited) => sb = "returned"

C9_Witness ==
    /\ length = Sized(0)
    /\ result.tag = "Ok"
    /\ frames = <<HeadersFrame(TRUE)>>

\* the Content-Length values of the request, in order
ContentLengths(hs) ==
    LET IsLen(e) == e[1] = CONTENT_LENGTH
        entries == SelectSeq(hs, IsLen)
    IN  [i \in 1..Len(entries) |-> entries[i][2]]

\* the number a digit string denotes
RECURSIVE Decimal(_)
Decimal(ds) == IF ds = <<>> THEN 0 ELSE 10 * Decimal(SubSeq(ds, 1, Len(ds) - 1)) + Last(ds)

\* a digit string in minimal form: digits only, no leading zero but for "0"
Minimal(ds) ==
    /\ Len(ds) >= 1
    /\ \A i \in 1..Len(ds) : ds[i] \in 0..9
    /\ (Len(ds) > 1 => ds[1] # 0)

CallerLength ==
    \/ ContainsKey(headHeaders, CONTENT_LENGTH)
    \/ (headType = "Rc" /\ rcExtra # <<>> /\ ContainsKey(rcExtra[1], CONTENT_LENGTH))

\* C10 as stated: the request has a Content-Length exactly when BodySize is
\* Sized(n) or Empty, and then its value is the decimal rendering of n (0 for
\* Empty).
C10_Original ==
    pc # "start" =>
        /\ (ContentLengths(req) # <<>>) <=> (length.tag \in {"Sized", "Empty"})
        /\ \A i \in 1..Len(ContentLengths(req)) :
              /\ Minimal(ContentLengths(req)[i])
              /\ Decimal(ContentLengths(req)[i]) = length.len

\* C10 amended: the request has a Content-Length exactly when BodySize is
\* Sized(n) or Empty, or BodySize is Stream and the head or the overlay carries
\* one; for Sized(n) and Empty its value is the decimal rendering of n (0 for
\* Empty).
C10_ContentLengthPresence ==
    pc # "start" =>
        /\ (ContentLengths(req) # <<>>) <=>
              (length.tag \in {"Sized", "Empty"} \/ (length.tag = "Stream" /\ CallerLength))
        /\ length.tag \in {"Sized", "Empty"} =>
              \A i \in 1..Len(ContentLengths(req)) :
                  /\ Minimal(ContentLengths(req)[i])
                  /\ Decimal(ContentLengths(req)[i]) = length.len

C10_Witness ==
    /\ pc = "poll_ready"
    /\ length = Sized(MaxSized)
    /\ CallerLength
    /\ ContentLengths(req) = <<Itoa(MaxSized)>>


\* C11: whatever the head and the overlay hold, the request handed to h2 has
\* no Connection and no Transfer-Encoding entry.
C11_NoHttp1Headers ==
    pc # "start" =>
        \A i \in 1..Len(req) : req[i][1] \notin {CONNECTION, TRANSFER_ENCODING}

C11_Witness ==
    /\ pc = "poll_ready"
    /\ ContainsKey(headHeaders, TRANSFER_ENCODING)
    /\ headType = "Rc" /\ rcExtra # <<>> /\ ContainsKey(rcExtra[1], CONNECTION)
    /\ ContainsKey(req, X_CUSTOM)


\* C12: a successful send_request for a HEAD request returns Payload::None
\* whatever body the response carries; for any other method the payload is the
\* response's body.
C12_HeadPayload ==
    result.tag = "Ok" =>
        /\ resp \in ResponseBodies
        /\ result.payload = (IF method = "HEAD" THEN "Payload::None" ELSE resp)

C12_Witness ==
    /\ method = "HEAD"
    /\ result.tag = "Ok"
    /\ resp = "Payload::H2(data)"
    /\ result.payload = "Payload::None"


\* C13 as stated: a capacity wait that ends without error with a grant of zero,
\* or with the signal that no capacity will come, makes send_body return
\* success without sending a frame.
C13_Original ==
    [][(sb = "poll_capacity" /\ result' = result /\ (sb' = "returned" \/ granted' = 0)) =>
          (sb' = "returned" /\ pc' = "response" /\ frames' = frames)]_vars

\* C13 amended: when poll_capacity signals that no capacity will come (None),
\* send_body returns success without sending a frame and the buffered bytes stay
\* unsent; a grant of zero does not end the loop: an empty data frame without
\* end-of-stream is sent, and a non-empty buffer is kept whole and waited for
\* again.
C13_ClosureEndsLoop ==
    [][(sb = "poll_capacity" /\ result' = result) =>
          IF sb' = "returned"
          THEN /\ pc' = "response"
               /\ frames' = frames
               /\ buf' = buf
               /\ exhausted' = FALSE
          ELSE granted' = 0 =>
               /\ frames' = Append(frames, DataFrame(<<>>, FALSE))
               /\ pc' = "send_body"
               /\ IF buf[1] # <<>>
                  THEN sb' = "poll_capacity" /\ buf' = buf /\ reserved' = Len(buf[1])
                  ELSE sb' = "poll_next" /\ buf' = <<>>]_vars

C13_Witness ==
    /\ result.tag = "Ok"
    /\ sb = "returned" /\ ~exhausted
    /\ buf # <<>> /\ Len(buf[1]) > 0
    /\ DataFrames # {}
    /\ EosFrames = {}


\* the concatenation of a sequence of byte sequences
RECURSIVE Flat(_)
Flat(qs) == IF qs = <<>> THEN <<>> ELSE qs[1] \o Flat(Tail(qs))
\* the bytes of the data frames sent, in order
Sent == Flat([i \in 1..Len(frames) |-> frames[i].data])

\* C14: whenever send_body waits for capacity a chunk is buffered and the
\* reservation is the length of what is still buffered, also after a partial
\* send; the producer is asked for a chunk only with the buffer cleared and
\* every byte of the chunks before sent.
C14_ReservationTracksBuffer ==
    /\ sb = "poll_capacity" =>
          /\ buf # <<>>
          /\ reserved = Len(buf[1])
          /\ Len(Sent) + Len(buf[1]) = Total(produced)
    /\ sb = "poll_next" =>
          /\ buf = <<>>
          /\ Len(Sent) = Total(produced)

C14_Witness ==
    /\ sb = "poll_capacity"
    /\ buf # <<>> /\ Len(buf[1]) > 0
    /\ Len(buf[1]) < Len(Last(produced))
    /\ reserved = Len(buf[1])
    /\ Last(frames).kind = "data" /\ Last(frames).data # <<>>

\* C15: the bytes of the data frames, in the order sent, followed by the bytes
\* still buffered, are the bytes of the producer's chunks in the order yielded;
\* when send_body ends by producer exhaustion the frames hold exactly the
\* chunks' bytes, none lost, duplicated or reordered.
C15_FramesCarryChunks ==
    /\ (sb = "returned" /\ exhausted) => Sent = Flat(produced)
    /\ sb = "poll_next" => Sent = Flat(produced)
    /\ sb = "poll_capacity" => Sent \o buf[1] = Flat(produced)
    /\ Flat(produced) = [i \in 1..Total(produced) |-> i]

\* chunks [2, 1] sent under grants [1, 1, 1]: three data frames, then the
\* end-of-stream frame
C15_Witness ==
    /\ sb = "returned" /\ exhausted
    /\ Len(produced) = 2 /\ Len(produced[1]) = 2 /\ Len(produced[2]) = 1
    /\ Len(frames) = 5
    /\ \A i \in 2..4 : Len(frames[i].data) = 1
    /\ frames[5] = DataFrame(<<>>, TRUE)

\* send_request failed on a send_data or on a poll_capacity of send_body
SendFailed(r) == r.tag = "Err" /\ r.err.site \in {"send_data", "poll_capacity"}

\* C16: a failing send_data, of a data frame or of the end-of-stream frame, or
\* a failing poll_capacity ends send_body in that step with the error: the step
\* sends no frame and fetches no chunk, the response is never awaited and
\* nothing runs afterwards.
C16_SendErrorAborts ==
    /\ [](SendFailed(result) =>
            /\ pc = "done" /\ sb = "failed"
            /\ ~awaited
            /\ ~ENABLED Next)
    /\ [][(SendFailed(result') /\ ~SendFailed(result)) =>
            /\ frames' = frames
            /\ produced' = produced
            /\ polls' = polls]_vars

C16_Witness ==
    /\ SendFailed(result) /\ result.err.site = "poll_capacity"
    /\ DataFrames # {}
    /\ buf # <<>> /\ Len(buf[1]) > 0


\* the overlay given with the head, empty when there is none
Overlay == IF headType = "Rc" /\ rcExtra # <<>> THEN rcExtra[1] ELSE <<>>
\* the values the entries of hs give to name, in order
ValuesOf(hs, name) ==
    LET Named(e) == e[1] = name
        entries == SelectSeq(hs, Named)
    IN  [i \in 1..Len(entries) |-> entries[i][2]]
\* the head's entries whose name the overlay does not hold
Unshadowed ==
    LET Free(e) == \A i \in 1..Len(Overlay) : Overlay[i][1] # e[1]
    IN  SelectSeq(headHeaders, Free)
\* the entries the copy loop lets through
Copied(hs) ==
    LET Passes(e) ==
            /\ e[1] \notin {CONNECTION, TRANSFER_ENCODING}
            /\ (e[1] = CONTENT_LENGTH => length.tag = "Stream")
    IN  SelectSeq(hs, Passes)
\* the number of entries the request holds before the copied ones
Synthesized == IF length.tag \in {"Sized", "Empty"} THEN 1 ELSE 0

\* C17: the merged entries are the head's entries whose name is not in the
\* overlay, in the head's order, followed by all the overlay's entries in the
\* overlay's order; the request holds them in that order, after the synthesized
\* length, less the entries the copy loop omits; a name held by both is emitted
\* with the overlay's values only.
C17_HeaderMerge ==
    pc # "start" =>
        /\ Len(headers) = Len(Unshadowed) + Len(Overlay)
        /\ SubSeq(headers, 1, Len(Unshadowed)) = Unshadowed
        /\ SubSeq(headers, Len(Unshadowed) + 1, Len(headers)) = Overlay
        /\ SubSeq(req, Synthesized + 1, Len(req)) = Copied(headers)
        /\ \A n \in HeaderNames :
              (ValuesOf(headHeaders, n) # <<>> /\ ValuesOf(Overlay, n) # <<>>) =>
                  ValuesOf(SubSeq(req, Synthesized + 1, Len(req)), n)
                      \in {<<>>, ValuesOf(Overlay, n)}

C17_Witness ==
    /\ pc = "poll_ready"
    /\ ValuesOf(headHeaders, X_CUSTOM) = << <<7>> >>
    /\ Len(headHeaders) = 2 /\ Len(Unshadowed) = 1
    /\ Overlay = << <<X_CUSTOM, <<4, 2>>>> >>
    /\ Len(headers) = 2
    /\ ValuesOf(req, X_CUSTOM) = << <<4, 2>> >>

\* the Content-Length values the caller's headers hold after the merge
CallerLengths ==
    IF ValuesOf(Overlay, CONTENT_LENGTH) # <<>>
    THEN ValuesOf(Overlay, CONTENT_LENGTH)
    ELSE ValuesOf(headHeaders, CONTENT_LENGTH)

\* C18: for BodySize::Stream the request's Content-Length entries are exactly
\* the caller's, the overlay's if it has any and the head's otherwise, values
\* unchanged; for BodySize::None the request has no Content-Length, supplied
\* or not.
C18_StreamKeepsCallerLength ==
    pc # "start" =>
        /\ length = Stream => ContentLengths(req) = CallerLengths
        /\ length = None => ContentLengths(req) = <<>>

C18_Witness ==
    /\ pc = "poll_ready"
    /\ length = Stream
    /\ ValuesOf(headHeaders, CONTENT_LENGTH) = << <<4, 2>> >>
    /\ ValuesOf(Overlay, CONTENT_LENGTH) = <<>>
    /\ Overlay # <<>>
    /\ ContentLengths(req) = << <<4, 2>> >>

\* C19: for BodySize::Sized(n) and BodySize::Empty the request has exactly one
\* Content-Length entry, its first, whose value is n in decimal (0 for Empty),
\* whatever Content-Length the head or the overlay carry.
C19_OneSynthesizedLength ==
    (pc # "start" /\ length.tag \in {"Sized", "Empty"}) =>
        /\ Len(ContentLengths(req)) = 1
        /\ req[1][1] = CONTENT_LENGTH
        /\ Minimal(req[1][2])
        /\ Decimal(req[1][2]) = length.len

C19_Witness ==
    /\ pc = "poll_ready"
    /\ length = Empty
    /\ ValuesOf(headHeaders, CONTENT_LENGTH) = << <<7>> >>
    /\ ValuesOf(Overlay, CONTENT_LENGTH) = << <<4, 2>> >>
    /\ ContentLengths(req) = << <<0>> >>


\* C20: with every poll_next answered and every poll_capacity that has a
\* non-zero reservation outstanding answered, a running send_body eventually
\* returns, with success or with an error.
C20_SendBodyTerminates ==
    (sb \in {"poll_next", "poll_capacity"}) ~> (sb \in {"returned", "failed"})

====
